---------------------------- MODULE Spec2Model ----------------------------
(***************************************************************************)
(* Chemical Space Explorer: the filter pipeline get_display_data           *)
(* (src/utils/functions.py), the memoization layer around it and the       *)
(* reactive session that drives it (src/app.py).                           *)
(*                                                                         *)
(* A DataFrame is a set of column names and a sequence of rows.  A string  *)
(* that the code splits or sorts (an ISO code, a collaboration key) is a   *)
(* sequence of one-character strings; every other string is only compared  *)
(* for equality and is a TLA+ string.                                      *)
(***************************************************************************)
EXTENDS Integers, Sequences, FiniteSets, TLC

VARIABLES
    df,                  \* the records table (the argument, or the dataset file)
    directory,           \* the country directory handed to a direct call
    req,                 \* the last direct call's parameters
    result,              \* what the last direct call returned (or that it raised)
    selected_countries,  \* reactive.Value: the click-ordered selection
    input_years,               \* input.years()
    input_chemical_category,   \* input.chemical_category()
    input_display_mode,  \* input.display_mode_input()
    input_region_filter,       \* input.region_filter()
    display_cache,       \* lru_cache of cached_get_display_data, LRU first
    country_cache,       \* lru_cache of load_country_list
    article_cache,       \* lru_cache of load_article_data
    served,              \* the value the reactive filtered_data holds
    stale,               \* filtered_data is invalidated and not yet recomputed
    last_call,           \* what the last cached_get_display_data call did
    recent,              \* every key asked of cached_get_display_data, by last use, oldest first
    events,              \* the number of input events the session has handled
    map_click_iso,       \* input.map_click_iso(): the code of the last map click
    reads,               \* the number of requests that read the dataset file
    summary,             \* what the last aggregation over a table returned
    earlier,             \* what the repeated request returned, call by call
    calls                \* the number of calls of get_display_data made so far

vars == <<df, directory, req, result, selected_countries, input_years, input_chemical_category,
          input_display_mode, input_region_filter, display_cache, country_cache,
          article_cache, served, stale, last_call, recent, events, map_click_iso, reads,
          summary, earlier, calls>>

filterVars == <<df, directory, req, result>>

sessionVars == <<selected_countries, input_years, input_chemical_category, input_display_mode,
                 input_region_filter, display_cache, country_cache, article_cache,
                 served, stale, last_call, recent, events, map_click_iso, reads>>

aggVars == <<summary, earlier, calls>>

-----------------------------------------------------------------------------
(* Bounds of the model.                                                    *)

MaxRows == 2

\* The capacity the model runs the filtered-result cache at.
MaxCached == 2

\* Input events in one session.
MaxEvents == 4

\* Calls of get_display_data on the same table, one after the other.
MaxCalls == 3

\* The count of the requests that read the dataset file stops here.
MaxReads == 2

-----------------------------------------------------------------------------
(* Cells.                                                                  *)

\* A missing numeric cell (NaN): what pd.isna tests and errors='coerce' yields.
NaN == -999

\* A numeric cell holding text that does not parse as a number.
BadText == -998

\* A missing string cell.
NaS == "<NA>"

\* A missing iso2c cell.
NaKey == <<"<NA>">>

CN == <<"C", "N">>
US == <<"U", "S">>
JP == <<"J", "P">>

Dash == "-"

\* Code-point order of the characters that occur.
Alphabet == <<"-", "C", "J", "N", "P", "S", "U">>

Ord(c) == CHOOSE i \in 1..Len(Alphabet) : Alphabet[i] = c

Join(a, b) == a \o <<Dash>> \o b

-----------------------------------------------------------------------------
(* Strings.                                                                *)

RECURSIVE SplitAcc(_, _, _)
SplitAcc(s, cur, out) ==
    IF s = <<>> THEN Append(out, cur)
    ELSE IF Head(s) = Dash THEN SplitAcc(Tail(s), <<>>, Append(out, cur))
    ELSE SplitAcc(Tail(s), Append(cur, Head(s)), out)

\* str.split('-')
Split(s) == SplitAcc(s, <<>>, <<>>)

\* set(list)
ToSet(seq) == {seq[i] : i \in 1..Len(seq)}

RECURSIVE StrLess(_, _)
\* a < b on Python strings
StrLess(a, b) ==
    IF b = <<>> THEN FALSE
    ELSE IF a = <<>> THEN TRUE
    ELSE IF Head(a) = Head(b) THEN StrLess(Tail(a), Tail(b))
    ELSE Ord(Head(a)) < Ord(Head(b))

RECURSIVE Insert(_, _)
Insert(x, sorted) ==
    IF sorted = <<>> THEN <<x>>
    ELSE IF StrLess(x, Head(sorted)) THEN <<x>> \o sorted
    ELSE <<Head(sorted)>> \o Insert(x, Tail(sorted))

RECURSIVE Sorted(_)
\* sorted(list): a stable sort, ascending
Sorted(seq) == IF seq = <<>> THEN <<>> ELSE Insert(seq[Len(seq)], Sorted(SubSeq(seq, 1, Len(seq) - 1)))

-----------------------------------------------------------------------------
(* DataFrames.                                                             *)

Frame(columns, rows) == [kind |-> "table", cols |-> columns, rows |-> rows]

\* pd.DataFrame()
EmptyFrame == Frame({}, <<>>)

\* An exception (KeyError) leaves the function instead of a return value.
Raised == [kind |-> "raise", cols |-> {}, rows |-> <<>>]

\* country_list = None
None == [kind |-> "none", cols |-> {}, rows |-> <<>>]

\* No call has returned yet.
Pending == [kind |-> "pending", cols |-> {}, rows |-> <<>>]

\* DataFrame.empty: no rows or no columns
IsEmpty(f) == Len(f.rows) = 0 \/ f.cols = {}

isna(x) == x = NaN

\* pd.to_numeric(errors='coerce') on one cell
ToNumeric(x) == IF x = BadText THEN NaN ELSE x

Filter(rows, Keep(_)) == SelectSeq(rows, Keep)

Map(rows, F(_)) == [i \in 1..Len(rows) |-> F(rows[i])]

RowCols == {"iso2c", "is_collab", "year", "chemical", "percentage", "value",
            "value_raw", "percentage_x", "country", "cc", "region", "lat", "lng",
            "source", "year_x", "country_x"}

MetaCols == <<"country", "cc", "region">>

percentage_cols == <<"percentage", "value", "value_raw", "percentage_x">>

DefaultColor == "#808080"

-----------------------------------------------------------------------------
(* get_display_data, src/utils/functions.py.                               *)

OutCols == {"total_percentage", "plot_group", "plot_color", "partners",
            "collab_size", "collab_type", "plot_color_group"}

\* A row of the working copy: the record's cells, and the cells the function
\* adds, not yet set.
Extend(r) ==
    [f \in RowCols \cup OutCols |->
        IF f \in RowCols THEN r[f]
        ELSE IF f \in {"total_percentage", "collab_size"} THEN NaN
        ELSE IF f = "partners" THEN <<>>
        ELSE NaS]

\* A variant that forgets the lower bound of the year range.
YearKeepNoLower(r, year_range) ==
    /\ ~isna(r.year)
    /\ r.year <= year_range[2]

\* df[(df['year'] >= year_range[0]) & (df['year'] <= year_range[1])]
YearKeep(r, year_range) ==
    /\ ~isna(r.year)
    /\ r.year >= year_range[1]
    /\ r.year <= year_range[2]

\* A variant that reads the category "All" as a wildcard.
ChemicalKeepWildcard(r, chemical_category) ==
    chemical_category = "All" \/ r.chemical = chemical_category

\* filtered_df[filtered_df['chemical'] == chemical_category]
ChemicalKeep(r, chemical_category) == r.chemical = chemical_category

\* A variant that keeps every solo row, selected or not.
IndividualKeepAnyIso(r, selected_isos) == r.is_collab = FALSE

\* (filtered_df['is_collab'] == False) & filtered_df['iso2c'].isin(selected_isos)
IndividualKeep(r, selected_isos) ==
    /\ r.is_collab = FALSE
    /\ r.iso2c \in ToSet(selected_isos)

\* A variant that accepts a collaboration sharing one code with the selection.
has_any_partner(iso_string, selected_set) ==
    IF iso_string = NaKey THEN FALSE
    ELSE selected_set \cap ToSet(Split(iso_string)) # {}

has_all_partners(iso_string, selected_set) ==
    IF iso_string = NaKey THEN FALSE
    ELSE selected_set \subseteq ToSet(Split(iso_string))

\* A variant whose mapping has no entry for four countries.
CollabTypeUpToThree(collab_size) ==
    CASE collab_size = 2 -> "Bilateral"
      [] collab_size = 3 -> "Trilateral"
      [] OTHER -> "5-country+"

\* collab_size.map({2: .., 3: .., 4: ..}).fillna("5-country+")
CollabType(collab_size) ==
    CASE collab_size = 2 -> "Bilateral"
      [] collab_size = 3 -> "Trilateral"
      [] collab_size = 4 -> "4-country"
      [] OTHER -> "5-country+"

\* A variant that merges with every entry of the directory.
country_meta_all(entries) == entries

\* country_list[[...]].drop_duplicates(subset=['iso2c']): the first entry of
\* each code, in the directory's order
country_meta(entries) ==
    SelectSeq([i \in 1..Len(entries) |->
                  IF \E j \in 1..(i - 1) : entries[j].iso2c = entries[i].iso2c
                  THEN [entries[i] EXCEPT !.iso2c = NaKey]
                  ELSE entries[i]],
              LAMBDA m : m.iso2c # NaKey)

\* A variant that keeps the record's own cell and falls back on the directory's.
MergedRawFirst(r, col, columns, meta) ==
    IF col \in columns /\ r[col] # NaS THEN r[col] ELSE meta

\* result[meta_col].fillna(result.get(orig_col, '')): the directory's cell
\* meta, the record's own where the directory has none; with no column of
\* that name in the records the merged column has no suffix and is taken as
\* it is.
Merged(r, col, columns, meta) ==
    IF col \in columns /\ meta = NaS THEN r[col] ELSE meta

\* The cells country, cc and region of a merged row.
Enriched(r, columns, country, cc, region) ==
    [r EXCEPT !.country = Merged(r, "country", columns, country),
              !.cc = Merged(r, "cc", columns, cc),
              !.region = Merged(r, "region", columns, region)]

RECURSIVE LeftMerge(_, _, _)
\* result.merge(country_meta, on='iso2c', how='left'): a row for every entry
\* of the record's code, one row with missing metadata when it has none
LeftMerge(rows, meta, columns) ==
    IF rows = <<>> THEN <<>>
    ELSE LET r == Head(rows)
             entries == SelectSeq(meta, LAMBDA m : m.iso2c = r.iso2c)
         IN  (IF entries = <<>> THEN <<Enriched(r, columns, NaS, NaS, NaS)>>
              ELSE [i \in 1..Len(entries) |->
                       Enriched(r, columns, entries[i].country, entries[i].cc,
                                entries[i].region)])
             \o LeftMerge(Tail(rows), meta, columns)

\* The columns of result.merge(country_meta, on='iso2c', how='left',
\* suffixes=('_orig', '_meta')) followed by the loop that sets country, cc, region.
MergedCols(columns) ==
    columns \cup ToSet(MetaCols)
      \cup UNION {IF MetaCols[i] \in columns
                  THEN {MetaCols[i] \o "_orig", MetaCols[i] \o "_meta"} ELSE {}
                  : i \in 1..Len(MetaCols)}

\* A variant that probes 'value' before 'percentage'.
ValueColumnValueFirst(columns) ==
    LET order == <<"value", "percentage", "value_raw", "percentage_x">>
        present == SelectSeq(order, LAMBDA c : c \in columns)
    IN  IF present = <<>> THEN NaS ELSE present[1]

\* result['total_percentage'] = pd.to_numeric(result[col]) for the first col present
ValueColumn(columns) ==
    LET present == SelectSeq(percentage_cols, LAMBDA c : c \in columns)
    IN  IF present = <<>> THEN NaS ELSE present[1]

\* Lines 186-203: numeric coercion, total_percentage, dropna.
Standardize(res) ==
    LET vc == ValueColumn(res.cols)
        coerced == Map(res.rows, LAMBDA r :
                       [r EXCEPT !.year = IF "year" \in res.cols THEN ToNumeric(r.year) ELSE r.year,
                                 !.total_percentage = IF vc = NaS THEN NaN ELSE ToNumeric(r[vc])])
    IN  IF IsEmpty(res) THEN res
        ELSE IF vc = NaS \/ "year" \notin res.cols THEN Raised
        ELSE Frame(res.cols \cup {"total_percentage"},
                   Filter(coerced, LAMBDA r : ~isna(r.year) /\ ~isna(r.total_percentage)))

\* Lines 117-146.
IndividualBranch(filtered, selected_isos, region_filter, country_list) ==
    IF selected_isos = <<>> THEN EmptyFrame
    ELSE IF "is_collab" \notin filtered.cols \/ "iso2c" \notin filtered.cols THEN Raised
    ELSE
    LET solo == Filter(filtered.rows, LAMBDA r : IndividualKeep(r, selected_isos))
        inRegion == IF region_filter # "All" /\ "region" \in filtered.cols
                    THEN Filter(solo, LAMBDA r : r.region = region_filter)
                    ELSE solo
        withMeta == country_list.kind # "none"
        columns == IF withMeta THEN MergedCols(filtered.cols) ELSE filtered.cols
        enriched == IF withMeta
                    THEN LeftMerge(inRegion, country_meta(country_list.rows), filtered.cols)
                    ELSE inRegion
        grouped == Map(enriched, LAMBDA r :
                       [r EXCEPT !.plot_group = IF "country" \in columns THEN r.country ELSE r.iso2c,
                                 !.plot_color = IF "cc" \in columns THEN r.cc ELSE DefaultColor])
    IN  IF inRegion = <<>> THEN EmptyFrame
        ELSE IF withMeta /\ ~({"iso2c"} \cup ToSet(MetaCols) \subseteq country_list.cols) THEN Raised
        ELSE Frame(columns \cup {"plot_group", "plot_color"}, grouped)

\* Lines 148-182.
CollaborationBranch(filtered, selected_isos) ==
    IF "is_collab" \notin filtered.cols THEN Raised
    ELSE
    LET collab == Filter(filtered.rows, LAMBDA r : r.is_collab = TRUE)
        selected_set == ToSet(selected_isos)
        kept == Filter(collab, LAMBDA r : has_all_partners(r.iso2c, selected_set))
        tagged == Map(kept, LAMBDA r :
                      LET partners == Split(r.iso2c)
                          collab_size == Len(partners)
                      IN  [r EXCEPT !.partners = partners,
                                    !.collab_size = collab_size,
                                    !.collab_type = CollabType(collab_size),
                                    !.plot_group = r.country,
                                    !.plot_color_group = CollabType(collab_size)])
    IN  IF collab = <<>> THEN EmptyFrame
        ELSE IF "iso2c" \notin filtered.cols THEN Raised
        ELSE IF kept = <<>> THEN EmptyFrame
        ELSE IF "country" \notin filtered.cols THEN Raised
        ELSE Frame(filtered.cols \cup {"partners", "collab_size", "collab_type",
                                       "plot_group", "plot_color_group"}, tagged)

\* A variant that lets a single selected country through.
InsufficientSelectionNone(display_mode, selected_isos) ==
    display_mode = "find_collaborations" /\ Len(selected_isos) < 1

\* Lines 99-101: a collaboration query needs two parties.
InsufficientSelection(display_mode, selected_isos) ==
    display_mode = "find_collaborations" /\ Len(selected_isos) < 2

\* Lines 103-115: the year range, then the category.
Narrow(table, year_range, chemical_category) ==
    IF "year" \notin table.cols \/ "chemical" \notin table.cols THEN Raised
    ELSE Frame(table.cols,
               Filter(Filter(table.rows, LAMBDA r : YearKeep(r, year_range)),
                      LAMBDA r : ChemicalKeep(r, chemical_category)))

get_display_data(table, selected_isos, year_range, chemical_category, display_mode, region_filter, country_list) ==
    IF IsEmpty(table) THEN EmptyFrame
    ELSE IF InsufficientSelection(display_mode, selected_isos) THEN EmptyFrame
    ELSE
    LET narrowed == Narrow(table, year_range, chemical_category)
        filtered == Frame(narrowed.cols, Map(narrowed.rows, Extend))
    IN  IF narrowed = Raised THEN Raised
        ELSE IF IsEmpty(narrowed) THEN EmptyFrame
        ELSE IF display_mode \in {"individual", "compare_individuals"}
             THEN LET res == IndividualBranch(filtered, selected_isos, region_filter, country_list)
                  IN  IF res = Raised THEN Raised ELSE Standardize(res)
        ELSE IF display_mode = "find_collaborations"
             THEN LET res == CollaborationBranch(filtered, selected_isos)
                  IN  IF res = Raised THEN Raised ELSE Standardize(res)
        ELSE EmptyFrame

-----------------------------------------------------------------------------
(* The records the model draws its tables from.                            *)

CountryNames == <<"China", "China-Japan", "China-United States",
                  "China-United States-Japan", "Japan", "PR China", "United States">>

NameOf(key) ==
    CASE key = CN -> "China"
      [] key = US -> "United States"
      [] key = JP -> "Japan"
      [] key = Join(CN, US) -> "China-United States"
      [] key = Join(CN, JP) -> "China-Japan"
      [] key = Join(Join(CN, US), JP) -> "China-United States-Japan"
      [] OTHER -> NaS

ColorOf(key) ==
    CASE key = CN -> "#AA0000"
      [] key = US -> "#0000AA"
      [] key = JP -> "#00AA00"
      [] OTHER -> NaS

RegionOf(key) ==
    CASE key = CN -> "Asia"
      [] key = JP -> "Asia"
      [] key = US -> "Americas"
      [] OTHER -> NaS

\* One observation: the entity, the flag, the year, the category and the cells
\* of the candidate value columns.
Row(iso2c, is_collab, year, chemical, percentage, value) ==
    [iso2c |-> iso2c, is_collab |-> is_collab, year |-> year, chemical |-> chemical,
     percentage |-> percentage, value |-> value, value_raw |-> 7, percentage_x |-> 8,
     country |-> NameOf(iso2c), cc |-> ColorOf(iso2c), region |-> RegionOf(iso2c),
     lat |-> NaN, lng |-> NaN, source |-> NaS, year_x |-> NaN, country_x |-> NaS]

\* The columns of the dataset file (spec, external interfaces).
DatasetCols == RowCols \ {"value", "value_raw"}

FilterPool ==
    { Row(CN, FALSE, 2000, "Organic", 5, 6),
      Row(US, FALSE, 2000, "Organic", 3, 6),
      Row(CN, FALSE, 2001, "All", 4, 6),
      Row(JP, FALSE, 2000, "Organic", NaN, 6),
      Row(Join(CN, US), TRUE, 2000, "Organic", 1, 6),
      Row(Join(Join(CN, US), JP), TRUE, 2001, "Organic", 2, 6),
      Row(Join(CN, JP), TRUE, 2000, "Organic", 1, 6),
      Row(Join(CN, US), TRUE, 2000, "All", NaN, 6),
      Row(US, FALSE, NaN, "Organic", 3, 6),
      Row(NaKey, TRUE, 2000, "Organic", 1, 6) }

\* Every table of at most n rows over a pool.
Tables(pool, n) == UNION {[1..k -> pool] : k \in 0..n}

Selections == {<<>>, <<CN>>, <<US>>, <<CN, US>>, <<US, CN>>, <<CN, JP>>, <<CN, US, JP>>}

YearRanges == {<<2000, 2000>>, <<2000, 2001>>, <<2001, 2000>>, <<2050, 2060>>}

Categories == {"All", "Organic"}

Modes == {"individual", "compare_individuals", "find_collaborations", "map"}

Regions == {"All", "Asia"}

-----------------------------------------------------------------------------
(* The country directory, src/app.py load_country_list.                    *)

NameRank(name) == CHOOSE i \in 1..Len(CountryNames) : CountryNames[i] = name

RECURSIVE InsertByCountry(_, _)
InsertByCountry(x, sorted) ==
    IF sorted = <<>> THEN <<x>>
    ELSE IF NameRank(x.country) < NameRank(Head(sorted).country) THEN <<x>> \o sorted
    ELSE <<Head(sorted)>> \o InsertByCountry(x, Tail(sorted))

RECURSIVE SortByCountry(_)
\* sort_values('country')
SortByCountry(rows) ==
    IF rows = <<>> THEN <<>>
    ELSE InsertByCountry(rows[Len(rows)], SortByCountry(SubSeq(rows, 1, Len(rows) - 1)))

DedupeKey(r) == <<r.country, r.iso2c, r.lat, r.lng, r.cc, r.region>>

RECURSIVE DropDuplicates(_, _)
\* drop_duplicates(subset=[...]): the first row of each key, in order
DropDuplicates(rows, seen) ==
    IF rows = <<>> THEN <<>>
    ELSE IF DedupeKey(Head(rows)) \in seen THEN DropDuplicates(Tail(rows), seen)
    ELSE <<Head(rows)>> \o DropDuplicates(Tail(rows), seen \cup {DedupeKey(Head(rows))})

load_country_list(table) ==
    IF ~({"is_collab", "country", "iso2c", "lat", "lng", "cc", "region"} \subseteq table.cols)
    THEN Raised
    ELSE
    LET solo == Filter(table.rows, LAMBDA r : r.is_collab = FALSE)
        unique == DropDuplicates(solo, {})
        named == Filter(unique, LAMBDA r : r.country # NaS /\ r.iso2c # NaKey
                                             /\ r.country # "" /\ r.iso2c # <<>>)
        filled == Map(named, LAMBDA r : [r EXCEPT !.region = IF @ = NaS THEN "Other" ELSE @])
    IN  Frame(table.cols, SortByCountry(filled))

-----------------------------------------------------------------------------
(* Direct calls of get_display_data on a table.                            *)

InitSession ==
    /\ selected_countries = <<>>
    /\ input_years = <<2000, 2001>>
    /\ input_chemical_category = "All"
    /\ input_display_mode = "compare_individuals"
    /\ input_region_filter = "All"
    /\ display_cache = <<>>
    /\ country_cache = <<>>
    /\ article_cache = <<>>
    /\ served = EmptyFrame
    /\ stale = TRUE
    /\ last_call = "none"
    /\ recent = <<>>
    /\ events = 0
    /\ map_click_iso = NaKey
    /\ reads = 0
    /\ summary = Pending
    /\ earlier = <<>>
    /\ calls = 0

\* A caller passes the directory built from the same table, or none.
Directories(table) ==
    {None} \cup (IF load_country_list(table) = Raised THEN {} ELSE {load_country_list(table)})

Requests ==
    [selected_isos : Selections, year_range : YearRanges, chemical_category : Categories,
     display_mode : Modes, region_filter : Regions]

InitFilter ==
    /\ df \in {Frame(DatasetCols, rows) : rows \in Tables(FilterPool, MaxRows)}
    /\ directory \in Directories(df)
    /\ req \in Requests
    /\ result = Pending
    /\ InitSession

\* A variant that applies the region filter to the table before the call.
ApplyRegionFirst(table, r, country_list) ==
    get_display_data(IF r.region_filter # "All" /\ "region" \in table.cols
                     THEN Frame(table.cols,
                                Filter(table.rows, LAMBDA x : x.region = r.region_filter))
                     ELSE table,
                     r.selected_isos, r.year_range, r.chemical_category,
                     r.display_mode, r.region_filter, country_list)

Apply(table, r, country_list) ==
    get_display_data(table, r.selected_isos, r.year_range, r.chemical_category,
                     r.display_mode, r.region_filter, country_list)

Call ==
    /\ result' = Apply(df, req, directory)
    /\ UNCHANGED <<df, directory, req, sessionVars, aggVars>>

NextFilter == Call

SpecFilter == InitFilter /\ [][NextFilter]_vars

-----------------------------------------------------------------------------
(* Direct calls on tables whose columns vary.                              *)

ValueCols == ToSet(percentage_cols)

\* Every choice of value columns beside the other columns; and the dataset's
\* columns less one that the function reads.
ColumnSets ==
    {(RowCols \ ValueCols) \cup v : v \in SUBSET ValueCols}
      \cup {DatasetCols \ {c} : c \in {"year", "chemical", "is_collab", "iso2c", "country", "region"}}

ColsPool ==
    { Row(CN, FALSE, 2000, "Organic", 5, 6),
      Row(US, FALSE, 2001, "Organic", NaN, 6),
      Row(Join(CN, US), TRUE, 2000, "Organic", 1, 6),
      Row(Join(CN, JP), TRUE, 2001, "All", 2, BadText) }

ColsRequests ==
    [selected_isos : {<<>>, <<CN>>, <<CN, US>>}, year_range : YearRanges,
     chemical_category : Categories,
     display_mode : {"compare_individuals", "find_collaborations", "map"},
     region_filter : Regions]

InitCols ==
    /\ df \in {Frame(c, rows) : c \in ColumnSets, rows \in Tables(ColsPool, MaxRows)}
    /\ directory \in Directories(df)
    /\ req \in ColsRequests
    /\ result = Pending
    /\ InitSession

SpecCols == InitCols /\ [][NextFilter]_vars

-----------------------------------------------------------------------------
(* Properties of a direct call.                                            *)

Called == result # Pending

Returned == result.kind = "table"

\* The cells of a record that the function never rewrites.
Ident(r) == <<r.iso2c, r.is_collab, r.year, r.chemical, r.percentage, r.value>>

Idents(rows) == Map(rows, Ident)

InYearRange(r) ==
    r.year # NaN /\ req.year_range[1] <= r.year /\ r.year <= req.year_range[2]

PassedYearCategory(r) == InYearRange(r) /\ r.chemical = req.chemical_category

\* The record's cell in the dataset's value column is a number.
NumericValue(r) == r.percentage \notin {NaN, BadText}

IncludesAllSelected(r) == ToSet(req.selected_isos) \subseteq ToSet(Split(r.iso2c))

CollaborationCall ==
    Called /\ req.display_mode = "find_collaborations" /\ Len(req.selected_isos) >= 2

IndividualCall ==
    Called /\ req.display_mode \in {"individual", "compare_individuals"}

\* C1 as stated: in Collaboration mode with at least two selected codes, the
\* rows returned are exactly the collaboration rows inside the year range and
\* category whose '-'-split key contains every selected code.
C1_SubsetOnly ==
    CollaborationCall =>
        /\ Returned
        /\ Idents(result.rows) =
             Idents(Filter(df.rows, LAMBDA r : /\ r.is_collab = TRUE
                                               /\ PassedYearCategory(r)
                                               /\ IncludesAllSelected(r)))

\* C1, amended: in Collaboration mode with at least two selected codes, the
\* rows returned are exactly the collaboration rows inside the year range and
\* category whose '-'-split key contains every selected code and whose value
\* is a number; an overlapping key is excluded, a superset key is included.
C1_SubsetSemantics ==
    CollaborationCall =>
        /\ Returned
        /\ Idents(result.rows) =
             Idents(Filter(df.rows, LAMBDA r : /\ r.is_collab = TRUE
                                               /\ PassedYearCategory(r)
                                               /\ IncludesAllSelected(r)
                                               /\ NumericValue(r)))

\* Selection {CN, US} over a table holding 'CN-JP' and 'CN-US-JP', both inside
\* the filters: only the superset row is returned.
C1_Witness ==
    /\ CollaborationCall
    /\ ToSet(req.selected_isos) = {CN, US}
    /\ \E i, j \in 1..Len(df.rows) :
          /\ df.rows[i].iso2c = Join(CN, JP)
          /\ df.rows[j].iso2c = Join(Join(CN, US), JP)
          /\ \A k \in {i, j} : /\ df.rows[k].is_collab = TRUE
                               /\ PassedYearCategory(df.rows[k])
                               /\ NumericValue(df.rows[k])
    /\ Len(result.rows) = 1
    /\ result.rows[1].iso2c = Join(Join(CN, US), JP)

\* C2: Collaboration mode with fewer than two selected entities returns the
\* empty frame, whatever the table, its columns and the other parameters.
C2_CollaborationMinimum ==
    (Called /\ req.display_mode = "find_collaborations" /\ Len(req.selected_isos) < 2)
        => result = EmptyFrame

\* One selected country, and a collaboration row of that country inside the
\* filters that a looser match would have returned.
C2_Witness ==
    /\ Called
    /\ req.display_mode = "find_collaborations"
    /\ Len(req.selected_isos) = 1
    /\ DatasetCols \subseteq df.cols
    /\ \E i \in 1..Len(df.rows) :
          /\ df.rows[i].is_collab = TRUE
          /\ PassedYearCategory(df.rows[i])
          /\ IncludesAllSelected(df.rows[i])
          /\ NumericValue(df.rows[i])
    /\ result = EmptyFrame

\* C3: every row returned has exactly the requested category; "All" is a
\* value like any other.
C3_CategoryLiteral ==
    Called =>
        /\ Returned
        /\ \A i \in 1..Len(result.rows) : result.rows[i].chemical = req.chemical_category

\* Category "All" requested over a table with an 'Organic' row that passes
\* every other filter: the result holds the "All" row alone.
C3_Witness ==
    /\ IndividualCall
    /\ req.chemical_category = "All"
    /\ req.region_filter = "All"
    /\ \E i \in 1..Len(df.rows) :
          /\ df.rows[i].chemical = "Organic"
          /\ InYearRange(df.rows[i])
          /\ df.rows[i].is_collab = FALSE
          /\ df.rows[i].iso2c \in ToSet(req.selected_isos)
          /\ NumericValue(df.rows[i])
    /\ Len(result.rows) = 1

\* C4: every row returned lies in the year range, bounds included; with the
\* bounds inverted, or no record in the range, the call returns an empty frame
\* and does not raise.
C4_YearRange ==
    Called =>
        /\ Returned
        /\ \A i \in 1..Len(result.rows) :
              /\ req.year_range[1] <= result.rows[i].year
              /\ result.rows[i].year <= req.year_range[2]
        /\ (\/ req.year_range[1] > req.year_range[2]
            \/ \A i \in 1..Len(df.rows) : ~InYearRange(df.rows[i]))
              => IsEmpty(result)

\* A result holding a row at each end of a proper range.
C4_Witness ==
    /\ Called
    /\ req.year_range[1] < req.year_range[2]
    /\ \E i, j \in 1..Len(result.rows) :
          /\ result.rows[i].year = req.year_range[1]
          /\ result.rows[j].year = req.year_range[2]

\* C5 as stated: in Individual mode with region filter 'All' the rows returned
\* are exactly the solo rows inside the year range and category whose ISO code
\* is selected.
C5_SelectedSoloOnly ==
    (IndividualCall /\ req.region_filter = "All") =>
        /\ Returned
        /\ Idents(result.rows) =
             Idents(Filter(df.rows, LAMBDA r : /\ PassedYearCategory(r)
                                               /\ r.is_collab = FALSE
                                               /\ r.iso2c \in ToSet(req.selected_isos)))

\* C5, amended: in Individual mode with region filter 'All' the rows returned
\* are exactly the solo rows inside the year range and category whose ISO code
\* is selected and whose value is a number; an empty selection returns nothing.
C5_IndividualRows ==
    (IndividualCall /\ req.region_filter = "All") =>
        /\ Returned
        /\ Idents(result.rows) =
             Idents(Filter(df.rows, LAMBDA r : /\ PassedYearCategory(r)
                                               /\ r.is_collab = FALSE
                                               /\ r.iso2c \in ToSet(req.selected_isos)
                                               /\ NumericValue(r)))
        /\ req.selected_isos = <<>> => IsEmpty(result)

\* Two solo rows inside the filters, one selected and returned, one not.
C5_Witness ==
    /\ IndividualCall
    /\ req.region_filter = "All"
    /\ \E i, j \in 1..Len(df.rows) :
          /\ \A k \in {i, j} : /\ PassedYearCategory(df.rows[k])
                               /\ df.rows[k].is_collab = FALSE
                               /\ NumericValue(df.rows[k])
          /\ df.rows[i].iso2c \in ToSet(req.selected_isos)
          /\ df.rows[j].iso2c \notin ToSet(req.selected_isos)
    /\ Len(result.rows) = 1

\* A column the function reads is missing from the table.
MissingColumn ==
    \/ {"year", "chemical", "is_collab", "iso2c"} \ df.cols # {}
    \/ ValueCols \cap df.cols = {}

\* C6: no exception reaches the caller; with a needed column missing the call
\* returns an empty result.
C6_NoException ==
    Called =>
        /\ result.kind # "raise"
        /\ MissingColumn => IsEmpty(result)

\* C7: total_percentage of a non-empty result is read from the first column
\* present among percentage, value, value_raw, percentage_x, in that order.
C7_ValuePriority ==
    (Called /\ Returned /\ ~IsEmpty(result)) =>
        \A i \in 1..Len(result.rows) :
            LET r == result.rows[i]
            IN  r.total_percentage =
                  (IF "percentage" \in df.cols THEN r.percentage
                   ELSE IF "value" \in df.cols THEN r.value
                   ELSE IF "value_raw" \in df.cols THEN r.value_raw
                   ELSE r.percentage_x)

\* A table with both 'percentage' and 'value', differing on a returned row.
C7_Witness ==
    /\ Called
    /\ {"percentage", "value"} \subseteq df.cols
    /\ \E i \in 1..Len(result.rows) :
          /\ result.rows[i].percentage # result.rows[i].value
          /\ result.rows[i].total_percentage = result.rows[i].percentage

-----------------------------------------------------------------------------
(* functools.lru_cache as the decorators of src/app.py use it: entries in  *)
(* order of last use, least recent first.                                  *)

\* @lru_cache(maxsize=128) of cached_get_display_data
maxsize == 128

\* @lru_cache(maxsize=1) of load_country_list
country_maxsize == 1

\* @lru_cache(maxsize=1) of load_article_data
article_maxsize == 1

\* The capacity of the filtered-result cache in the model.
DisplayCapacity == IF MaxCached < maxsize THEN MaxCached ELSE maxsize

Entry(key, value) == [key |-> key, value |-> value]

\* The position of key in the cache, 0 when it is not cached.
LruFind(cache, key) ==
    IF \E i \in 1..Len(cache) : cache[i].key = key
    THEN CHOOSE i \in 1..Len(cache) : cache[i].key = key
    ELSE 0

Without(seq, i) == SubSeq(seq, 1, i - 1) \o SubSeq(seq, i + 1, Len(seq))

\* A variant whose hits leave the order alone (first in, first out).
LruHitNoRefresh(cache, i) == cache

\* A hit: the entry becomes the most recently used.
LruHit(cache, i) == Append(Without(cache, i), cache[i])

\* A miss: the new entry is stored; a full cache first loses its least
\* recently used entry.
LruStore(cache, capacity, key, value) ==
    IF Len(cache) >= capacity
    THEN Append(Tail(cache), Entry(key, value))
    ELSE Append(cache, Entry(key, value))

\* The cache after a call with key whose computation yields value; a raised
\* exception is not cached.
LruCall(cache, capacity, key, value) ==
    LET i == LruFind(cache, key)
    IN  IF i # 0 THEN LruHit(cache, i)
        ELSE IF value = Raised THEN cache
        ELSE LruStore(cache, capacity, key, value)

\* What the call returns.
LruValue(cache, key, value) ==
    LET i == LruFind(cache, key)
    IN  IF i # 0 THEN cache[i].value ELSE value

-----------------------------------------------------------------------------
(* The cached functions of src/app.py.                                     *)

\* The key of the zero-argument cached functions.
NoArgs == <<>>

ArticleCols == {"source", "year_x", "country_x", "percentage_x", "cc"}

\* load_article_data: the article columns renamed, rows without a value or a
\* source dropped; an empty frame when a column is missing.
load_article_data(table) ==
    IF ~(ArticleCols \subseteq table.cols) THEN EmptyFrame
    ELSE
    LET renamed == Map(table.rows, LAMBDA r :
                       [source |-> r.source, year |-> r.year_x, country |-> r.country_x,
                        value |-> r.percentage_x, cc |-> r.cc])
    IN  Frame({"source", "year", "country", "value", "cc"},
              Filter(renamed, LAMBDA r : r.value # NaN /\ r.source # NaS /\ r.source # ""))

\* A variant that keys the cache on the selection in click order.
CacheKeyUnsorted(selection, year_range, chemical_category, display_mode, region_filter) ==
    <<selection, year_range, chemical_category, display_mode, region_filter>>

\* A variant that does not pass the region filter on (the default "All" applies).
CacheKeyDefaultRegion(selection, year_range, chemical_category, display_mode, region_filter) ==
    <<Sorted(selection), year_range, chemical_category, display_mode, "All">>

\* filtered_data: the arguments of cached_get_display_data, which are its cache key.
CacheKey(selection, year_range, chemical_category, display_mode, region_filter) ==
    <<IF selection # <<>> THEN Sorted(selection) ELSE <<>>,
      year_range, chemical_category, display_mode, region_filter>>

\* The requests that have read the dataset file, one more: pd.read_parquet
\* ran in the request being handled. The count stops at MaxReads.
ReadAgain(n) == IF n < MaxReads THEN n + 1 ELSE n

\* The body of cached_get_display_data: the dataset is read, the country list
\* fetched through its own cache, and get_display_data called.
ComputeDisplayData(key, table, countries) ==
    LET country_list == LruValue(countries, NoArgs, load_country_list(table))
    IN  IF country_list = Raised THEN Raised
        ELSE get_display_data(table, key[1], key[2], key[3], key[4], key[5], country_list)

\* The effect of one call of cached_get_display_data on the two caches.
CachedCall(key) ==
    LET hit == LruFind(display_cache, key) # 0
        value == ComputeDisplayData(key, df, country_cache)
    IN  /\ display_cache' = LruCall(display_cache, DisplayCapacity, key, value)
        /\ country_cache' = IF hit THEN country_cache
                            ELSE LruCall(country_cache, country_maxsize, NoArgs,
                                         load_country_list(df))
        /\ last_call' = IF hit THEN "hit" ELSE IF value = Raised THEN "error" ELSE "miss"
        /\ reads' = IF hit THEN reads ELSE ReadAgain(reads)

CachedValue(key) ==
    LruValue(display_cache, key, ComputeDisplayData(key, df, country_cache))

-----------------------------------------------------------------------------
(* The session, src/app.py server.                                         *)

\* The dataset file of the session.
Dataset ==
    Frame(DatasetCols,
          << Row(CN, FALSE, 2000, "All", 5, 6),
             Row(CN, FALSE, 2001, "Organic", 4, 6),
             Row(US, FALSE, 2000, "All", 3, 6),
             Row(JP, FALSE, 2000, "All", NaN, 6),
             Row(Join(CN, US), TRUE, 2000, "All", 1, 6),
             Row(Join(Join(CN, US), JP), TRUE, 2001, "Organic", 2, 6) >>)

\* The countries of the map.
Clickable == {CN, US}

SliderRanges == {<<2000, 2001>>, <<2000, 2000>>}

RadioModes == {"compare_individuals", "find_collaborations"}

IdleRequest ==
    [selected_isos |-> <<>>, year_range |-> <<2000, 2001>>, chemical_category |-> "All",
     display_mode |-> "compare_individuals", region_filter |-> "All"]

Init ==
    /\ df = Dataset
    /\ directory = None
    /\ req = IdleRequest
    /\ result = Pending
    /\ InitSession

CurrentKey ==
    CacheKey(selected_countries, input_years, input_chemical_category,
             input_display_mode, input_region_filter)

\* A variant in which an input event leaves filtered_data as it is.
InvalidateNothing ==
    /\ events < MaxEvents
    /\ events' = events + 1
    /\ UNCHANGED <<filterVars, display_cache, country_cache, article_cache, served,
                   stale, last_call, recent, reads, aggVars>>

\* An input event invalidates filtered_data.
Invalidate ==
    /\ events < MaxEvents
    /\ events' = events + 1
    /\ stale' = TRUE
    /\ UNCHANGED <<filterVars, display_cache, country_cache, article_cache, served,
                   last_call, recent, reads, aggVars>>

\* list.remove: the list without the first element equal to x.
Remove(seq, x) ==
    LET i == CHOOSE j \in 1..Len(seq) : seq[j] = x /\ \A k \in 1..(j - 1) : seq[k] # x
    IN  Without(seq, i)

\* A variant that appends the clicked code whether or not it is selected.
ToggleAppendOnly(current_selection, clicked_iso) ==
    Append(current_selection, clicked_iso)

\* A variant that puts a newly clicked code in front.
ToggleInFront(current_selection, clicked_iso) ==
    IF clicked_iso \in ToSet(current_selection)
    THEN Remove(current_selection, clicked_iso)
    ELSE <<clicked_iso>> \o current_selection

\* The list _handle_map_click stores: the clicked code removed when it is in
\* the selection, appended otherwise.
Toggle(current_selection, clicked_iso) ==
    IF clicked_iso \in ToSet(current_selection)
    THEN Remove(current_selection, clicked_iso)
    ELSE Append(current_selection, clicked_iso)

\* The handler's run for a click on clicked_iso; a click without a code does
\* nothing.
Click(clicked_iso) ==
    /\ clicked_iso # <<>>
    /\ map_click_iso' = clicked_iso
    /\ selected_countries' = Toggle(selected_countries, clicked_iso)
    /\ Invalidate
    /\ UNCHANGED <<input_years, input_chemical_category, input_display_mode,
                   input_region_filter>>

_handle_map_click ==
    \E clicked_iso \in Clickable : Click(clicked_iso)

_clear_all_selections ==
    /\ selected_countries' = <<>>
    /\ Invalidate
    /\ UNCHANGED <<input_years, input_chemical_category, input_display_mode,
                   input_region_filter, map_click_iso>>

SetYears ==
    \E yr \in SliderRanges \ {input_years} :
        /\ input_years' = yr
        /\ Invalidate
        /\ UNCHANGED <<selected_countries, input_chemical_category, input_display_mode,
                       input_region_filter, map_click_iso>>

SetCategory ==
    \E cat \in Categories \ {input_chemical_category} :
        /\ input_chemical_category' = cat
        /\ Invalidate
        /\ UNCHANGED <<selected_countries, input_years, input_display_mode,
                       input_region_filter, map_click_iso>>

SetMode ==
    \E mode \in RadioModes \ {input_display_mode} :
        /\ input_display_mode' = mode
        /\ Invalidate
        /\ UNCHANGED <<selected_countries, input_years, input_chemical_category,
                       input_region_filter, map_click_iso>>

SetRegion ==
    \E reg \in Regions \ {input_region_filter} :
        /\ input_region_filter' = reg
        /\ Invalidate
        /\ UNCHANGED <<selected_countries, input_years, input_chemical_category,
                       input_display_mode, map_click_iso>>

\* The reactive flush: an output reads filtered_data, which recomputes.
filtered_data ==
    /\ stale
    /\ served' = CachedValue(CurrentKey)
    /\ CachedCall(CurrentKey)
    /\ stale' = FALSE
    /\ UNCHANGED <<filterVars, selected_countries, input_years, input_chemical_category,
                   input_display_mode, input_region_filter, article_cache, recent, events,
                   map_click_iso, aggVars>>

Next ==
    \/ _handle_map_click
    \/ _clear_all_selections
    \/ SetYears
    \/ SetCategory
    \/ SetMode
    \/ SetRegion
    \/ filtered_data

Spec == Init /\ [][Next]_vars

\* The step that filtered_data takes, and no other action of the session:
\* the invalidated reactive is recomputed. It is enabled exactly when
\* filtered_data is.
Recomputed == stale /\ stale' = FALSE

\* The session whose outputs read filtered_data: an invalidated reactive
\* that an output depends on is recomputed in the flush that follows the
\* event, so the recomputation cannot stay pending for ever.
SpecSettle == Init /\ [][Next]_vars /\ WF_stale(Recomputed)

-----------------------------------------------------------------------------
(* The caches under direct calls, in any order, of the cached functions.   *)

CacheRequests ==
    {CacheKey(sel, <<2000, 2001>>, "All", mode, "All") :
        sel \in {<<CN>>, <<US>>, <<CN, US>>}, mode \in RadioModes}

\* key becomes the most recently used of the keys asked so far.
Touch(keys, key) == Append(SelectSeq(keys, LAMBDA k : k # key), key)

cached_get_display_data ==
    \E key \in CacheRequests :
        /\ req' = [selected_isos |-> key[1], year_range |-> key[2],
                   chemical_category |-> key[3], display_mode |-> key[4],
                   region_filter |-> key[5]]
        /\ result' = CachedValue(key)
        /\ CachedCall(key)
        /\ recent' = IF CachedValue(key) = Raised THEN recent ELSE Touch(recent, key)
        /\ UNCHANGED <<df, directory, selected_countries, input_years,
                       input_chemical_category, input_display_mode, input_region_filter,
                       article_cache, served, stale, events, map_click_iso, aggVars>>

\* The reactive country_list of the server: load_country_list through its cache.
country_list ==
    /\ country_cache' = LruCall(country_cache, country_maxsize, NoArgs, load_country_list(df))
    /\ reads' = IF LruFind(country_cache, NoArgs) # 0 THEN reads ELSE ReadAgain(reads)
    /\ UNCHANGED <<filterVars, selected_countries, input_years, input_chemical_category,
                   input_display_mode, input_region_filter, display_cache, article_cache,
                   served, stale, last_call, recent, events, map_click_iso, aggVars>>

\* An article plot: load_article_data through its cache.
country_cs_plot ==
    /\ article_cache' = LruCall(article_cache, article_maxsize, NoArgs, load_article_data(df))
    /\ reads' = IF LruFind(article_cache, NoArgs) # 0 THEN reads ELSE ReadAgain(reads)
    /\ UNCHANGED <<filterVars, selected_countries, input_years, input_chemical_category,
                   input_display_mode, input_region_filter, display_cache, country_cache,
                   served, stale, last_call, recent, events, map_click_iso, aggVars>>

NextCache ==
    \/ cached_get_display_data
    \/ country_list
    \/ country_cs_plot

SpecCache == Init /\ [][NextCache]_vars

-----------------------------------------------------------------------------
(* Properties of the memoization layer.                                    *)

\* Every order in which the same countries can have been clicked.
ClickOrders(selection) ==
    {p \in [1..Len(selection) -> ToSet(selection)] : ToSet(p) = ToSet(selection)}

KeyOf(selection) ==
    CacheKey(selection, input_years, input_chemical_category, input_display_mode,
             input_region_filter)

\* A computation that uses no cache: the file as it is, the directory built
\* from it, the parameters as given.
Fresh(selection, year_range, chemical_category, display_mode, region_filter) ==
    get_display_data(df, selection, year_range, chemical_category, display_mode,
                     region_filter, load_country_list(df))

FreshNow(selection) ==
    Fresh(selection, input_years, input_chemical_category, input_display_mode,
          input_region_filter)

\* C26: once the input events have ceased, filtered_data comes to hold, and
\* goes on holding, the result of the pipeline for the selection and the
\* filter values that stand at the end.
C26_SettlesFresh ==
    <>[](~stale /\ served = FreshNow(selected_countries))

\* MaxEvents events have been handled, the last of them a click, and the
\* recomputation after them returned rows.
C26_Witness ==
    /\ events = MaxEvents
    /\ map_click_iso # NaKey
    /\ ~stale
    /\ served.kind = "table"
    /\ ~IsEmpty(served)
    /\ served = FreshNow(selected_countries)

\* C8: selections of the same ISO codes in different click orders give the
\* same cache key, meet the same cache entry once it is stored, and have equal
\* filter results.
C8_OrderInsensitiveKey ==
    \A p \in ClickOrders(selected_countries) :
        /\ KeyOf(p) = KeyOf(selected_countries)
        /\ FreshNow(p) = FreshNow(selected_countries)
        /\ ~stale =>
              /\ LruFind(display_cache, KeyOf(p)) # 0
              /\ display_cache[LruFind(display_cache, KeyOf(p))].value = served

\* The selection stands in the click order US, CN; its request hit the entry
\* stored under the sorted key.
C8_Witness ==
    /\ selected_countries = <<US, CN>>
    /\ ~stale
    /\ last_call = "hit"
    /\ \E i \in 1..Len(display_cache) :
          /\ display_cache[i].key[1] = <<CN, US>>
          /\ display_cache[i].value = served
    /\ ~IsEmpty(served)

\* C9: a cache hit returns what a fresh computation with the same parameters
\* returns at that moment, and so would a hit on any entry the cache holds.
C9_CacheUnobservable ==
    /\ (~stale /\ last_call = "hit") => served = FreshNow(selected_countries)
    /\ \A i \in 1..Len(display_cache) :
          LET k == display_cache[i].key
          IN  display_cache[i].value = Fresh(k[1], k[2], k[3], k[4], k[5])

\* A hit on a non-empty result after other keys were requested in between.
C9_Witness ==
    /\ ~stale
    /\ last_call = "hit"
    /\ ~IsEmpty(served)
    /\ Len(display_cache) = DisplayCapacity

Keys(cache) == [i \in 1..Len(cache) |-> cache[i].key]

\* The last n elements of seq.
Last(seq, n) == SubSeq(seq, Len(seq) - n + 1, Len(seq))

\* C10: the filtered-result cache never holds more entries than its capacity,
\* the country-directory and article-data caches never more than one; the
\* cached keys are always the most recently used ones, so a miss on a full
\* cache evicts the least recently used entry and keeps the others.
C10_BoundedLru ==
    /\ Len(display_cache) <= DisplayCapacity
    /\ DisplayCapacity <= maxsize
    /\ Len(country_cache) <= 1
    /\ Len(article_cache) <= 1
    /\ Keys(display_cache) =
         Last(recent, IF Len(recent) < DisplayCapacity THEN Len(recent) ELSE DisplayCapacity)

\* A miss on a full cache that evicted an entry, an earlier key having been
\* used again since it was stored.
C10_Witness ==
    /\ last_call = "miss"
    /\ Len(display_cache) = DisplayCapacity
    /\ Len(recent) > DisplayCapacity + 1
    /\ Len(country_cache) = 1
    /\ Len(article_cache) = 1

-----------------------------------------------------------------------------
(* groupby(...).agg(...) as the summary functions use it.                  *)

\* The strings that occur as group keys, in Python's string order.
Collation == <<"4-country", "5-country+", "All", "Americas", "Asia", "Bilateral",
               "China", "China-Japan", "China-United States",
               "China-United States-Japan", "Japan", "Organic", "Other", "PR China",
               "Trilateral", "United States">>

Rank(x) == CHOOSE i \in 1..Len(Collation) : Collation[i] = x

\* a < b on two cells of the column col
CellLess(col, a, b) == IF col = "iso2c" THEN StrLess(a, b) ELSE Rank(a) < Rank(b)

\* The row's cells in the grouping columns.
GroupKey(r, by) == [i \in 1..Len(by) |-> r[by[i]]]

\* a < b on two group keys: tuples compare column by column
TupleLess(by, a, b) ==
    \E i \in 1..Len(by) :
        /\ \A j \in 1..(i - 1) : a[j] = b[j]
        /\ a[i] # b[i]
        /\ CellLess(by[i], a[i], b[i])

RECURSIVE SortKeys(_, _)
\* groupby(sort=True): the groups come in ascending order of their keys
SortKeys(keys, by) ==
    IF keys = {} THEN <<>>
    ELSE LET m == CHOOSE k \in keys : \A o \in keys \ {k} : TupleLess(by, k, o)
         IN  <<m>> \o SortKeys(keys \ {m}, by)

\* groupby(dropna=True): a row with a missing key belongs to no group
HasKey(r, by) ==
    \A i \in 1..Len(by) : IF by[i] = "iso2c" THEN r[by[i]] # NaKey ELSE r[by[i]] # NaS

Members(rows, by, k) == SelectSeq(rows, LAMBDA r : HasKey(r, by) /\ GroupKey(r, by) = k)

\* The cells of a column that are not missing.
Present(rows, col) == SelectSeq([i \in 1..Len(rows) |-> rows[i][col]], LAMBDA x : ~isna(x))

RECURSIVE Sum(_)
Sum(xs) == IF xs = <<>> THEN 0 ELSE Head(xs) + Sum(Tail(xs))

\* xs is not empty
Max(xs) == CHOOSE x \in ToSet(xs) : \A y \in ToSet(xs) : y <= x

\* 'mean' followed by .round(2), in hundredths; with the group sizes of the
\* model no mean falls on half a hundredth.
MeanRounded(xs) ==
    IF xs = <<>> THEN NaN ELSE (200 * Sum(xs) + Len(xs)) \div (2 * Len(xs))

\* 'max' followed by .round(2), in hundredths
MaxRounded(xs) == IF xs = <<>> THEN NaN ELSE 100 * Max(xs)

\* 'count': the cells that are not missing
count(xs) == Len(xs)

\* 'nunique': the distinct cells that are not missing
nunique(xs) == Cardinality(ToSet(xs))

\* One row per group: the keys under their display names, the mean and the
\* maximum of total_percentage, and the 'Years Present' cell.
Aggregate(data, by, names, years_present) ==
    LET keyed == SelectSeq(data.rows, LAMBDA r : HasKey(r, by))
        keys == SortKeys({GroupKey(keyed[i], by) : i \in 1..Len(keyed)}, by)
        line(k) ==
            LET group == Members(data.rows, by, k)
                values == Present(group, "total_percentage")
            IN  [c \in ToSet(names) \cup {"Avg %", "Max %", "Years Present"} |->
                    IF c = "Avg %" THEN MeanRounded(values)
                    ELSE IF c = "Max %" THEN MaxRounded(values)
                    ELSE IF c = "Years Present"
                         THEN (IF years_present = "count" THEN count(values)
                               ELSE nunique(Present(group, "year")))
                    ELSE k[CHOOSE i \in 1..Len(names) : names[i] = c]]
    IN  Frame(ToSet(names) \cup {"Avg %", "Max %", "Years Present"},
              [i \in 1..Len(keys) |-> line(keys[i])])

\* pd.DataFrame({column: [text]})
Notice(column, text) == Frame({column}, <<[c \in {column} |-> text]>>)

\* The message that lists the missing columns.
MissingNotice(text, required, columns) ==
    Notice("Error", [text |-> text,
                     missing |-> SelectSeq(required, LAMBDA c : c \notin columns)])

\* src/utils/functions.py create_summary_table
create_summary_table(data, display_mode) ==
    IF IsEmpty(data) THEN Notice("Message", "No data available")
    ELSE IF display_mode \in {"individual", "compare_individuals"}
    THEN IF ~({"iso2c", "country", "region", "chemical", "total_percentage"} \subseteq data.cols)
         THEN Raised
         ELSE Aggregate(data, <<"iso2c", "country", "region", "chemical">>,
                        <<"ISO", "Country", "Region", "Chemical Category">>, "count")
    ELSE IF display_mode = "find_collaborations"
    THEN IF ~({"iso2c", "collab_type", "chemical", "total_percentage"} \subseteq data.cols)
         THEN Raised
         ELSE Aggregate(data, <<"iso2c", "collab_type", "chemical">>,
                        <<"Collaboration", "Type", "Chemical Category">>, "count")
    ELSE Notice("Message", "Invalid display mode")

\* src/utils/functions.py create_summary_dataframe
create_summary_dataframe(data, mode) ==
    IF "total_percentage" \notin data.cols \/ IsEmpty(data)
    THEN Notice("Error", "Missing 'total_percentage' column or no data for summary.")
    ELSE IF mode = "find_collaborations"
    THEN LET required_cols == <<"plot_group", "chemical", "collab_type", "total_percentage">>
         IN  IF ~(ToSet(required_cols) \subseteq data.cols)
             THEN MissingNotice("Summary data for collaborations missing: ",
                                required_cols, data.cols)
             ELSE IF "year" \notin data.cols THEN Raised
             ELSE Aggregate(data, <<"plot_group", "chemical", "collab_type">>,
                            <<"Collaboration", "Chemical", "Type">>, "nunique")
    ELSE IF mode = "compare_individuals"
    THEN LET required_cols == <<"country", "iso2c", "chemical", "total_percentage">>
         IN  IF ~(ToSet(required_cols) \subseteq data.cols)
             THEN MissingNotice("Summary data for individuals missing: ",
                                required_cols, data.cols)
             ELSE IF "year" \notin data.cols THEN Raised
             ELSE Aggregate(data, <<"country", "iso2c", "chemical">>,
                            <<"Country", "ISO", "Chemical">>, "nunique")
    ELSE Notice("Message", [text |-> "Summary not available for display mode: ",
                            missing |-> <<mode>>])

\* src/app.py create_summary_dataframe, the copy the server calls
app_create_summary_dataframe(data, mode) ==
    IF "total_percentage" \notin data.cols \/ IsEmpty(data)
    THEN Notice("Error", "Missing 'total_percentage' column or no data for summary.")
    ELSE IF mode = "find_collaborations"
    THEN LET required_cols == <<"plot_group", "chemical", "collab_type", "total_percentage">>
         IN  IF ~(ToSet(required_cols) \subseteq data.cols)
             THEN MissingNotice("Summary data for collaborations missing: ",
                                required_cols, data.cols)
             ELSE IF "year" \notin data.cols THEN Raised
             ELSE Aggregate(data, <<"plot_group", "chemical", "collab_type">>,
                            <<"Collaboration", "Chemical", "Type">>, "nunique")
    ELSE IF mode = "compare_individuals"
    THEN LET required_cols == <<"country", "iso2c", "chemical", "total_percentage">>
         IN  IF ~(ToSet(required_cols) \subseteq data.cols)
             THEN MissingNotice("Summary data for individuals missing: ",
                                required_cols, data.cols)
             ELSE IF "year" \notin data.cols THEN Raised
             ELSE Aggregate(data, <<"country", "iso2c", "chemical">>,
                            <<"Country", "ISO", "Chemical">>, "nunique")
    ELSE Notice("Message", [text |-> "Summary not available for display mode: ",
                            missing |-> <<mode>>])

-----------------------------------------------------------------------------
(* Summaries of what get_display_data returned.                            *)

SummaryPool ==
    { Row(CN, FALSE, 2000, "Organic", 5, 6),
      Row(CN, FALSE, 2000, "Organic", 3, 6),
      Row(CN, FALSE, 2001, "Organic", 4, 6),
      Row(US, FALSE, 2000, "Organic", 3, 6),
      Row(Join(CN, US), TRUE, 2000, "Organic", 1, 6),
      Row(Join(CN, US), TRUE, 2000, "Organic", 2, 6),
      Row(Join(CN, US), TRUE, 2001, "Organic", 2, 6) }

SummaryRequests ==
    [selected_isos : {<<CN>>, <<CN, US>>}, year_range : {<<2000, 2001>>},
     chemical_category : {"Organic"},
     display_mode : {"compare_individuals", "find_collaborations"},
     region_filter : {"All"}]

\* The modes a summary is asked in.
SummaryModes == {"individual", "compare_individuals", "find_collaborations"}

InitSummary ==
    /\ df \in {Frame(DatasetCols, rows) : rows \in Tables(SummaryPool, MaxRows + 1)}
    /\ directory \in Directories(df)
    /\ req \in SummaryRequests
    /\ result = Pending
    /\ InitSession

Summarized(op, mode, out) == [op |-> op, mode |-> mode, out |-> out]

\* create_summary_table on the filter result, in any mode
SummaryTable ==
    /\ Returned
    /\ \E display_mode \in SummaryModes :
          summary' = Summarized("create_summary_table", display_mode,
                                create_summary_table(result, display_mode))
    /\ UNCHANGED <<filterVars, sessionVars, earlier, calls>>

\* create_summary_dataframe of src/utils/functions.py on the filter result
SummaryDataframe ==
    /\ Returned
    /\ \E mode \in SummaryModes :
          summary' = Summarized("create_summary_dataframe", mode,
                                create_summary_dataframe(result, mode))
    /\ UNCHANGED <<filterVars, sessionVars, earlier, calls>>

\* The server's summary_table output on the filter result of the current mode.
summary_table ==
    /\ Returned
    /\ summary' =
         Summarized("summary_table", req.display_mode,
                    IF IsEmpty(result)
                    THEN Notice("Message",
                                IF req.display_mode = "find_collaborations"
                                   /\ Len(req.selected_isos) < 2
                                THEN "Select at least 2 countries to find collaborations."
                                ELSE "No data available for current selections.")
                    ELSE app_create_summary_dataframe(result, req.display_mode))
    /\ UNCHANGED <<filterVars, sessionVars, earlier, calls>>

NextSummary ==
    \/ Call
    \/ SummaryTable
    \/ SummaryDataframe
    \/ summary_table

SpecSummary == InitSummary /\ [][NextSummary]_vars

-----------------------------------------------------------------------------
(* Properties of the summaries.                                            *)

Summarised == summary # Pending

\* The column of the filter result that a summary column shows.
SourceColumn(name) ==
    CASE name = "ISO" -> "iso2c"
      [] name = "Country" -> "country"
      [] name = "Region" -> "region"
      [] name \in {"Chemical", "Chemical Category"} -> "chemical"
      [] name = "Type" -> "collab_type"
      [] name = "Collaboration" ->
            IF summary.op = "create_summary_table" THEN "iso2c" ELSE "plot_group"

\* The rows of the filter result that a summary line stands for.
GroupRows(line) ==
    SelectSeq(result.rows, LAMBDA r :
        \A name \in (DOMAIN line) \ {"Avg %", "Max %", "Years Present"} :
            r[SourceColumn(name)] = line[name])

YearsOf(rows) == {rows[i].year : i \in 1..Len(rows)}

\* C11: whichever summary operation ran, the 'Years Present' cell of each
\* group is the number of distinct years among the group's rows, not the
\* number of its rows.
C11_YearsPresentDistinct ==
    (Summarised /\ "Years Present" \in summary.out.cols) =>
        \A i \in 1..Len(summary.out.rows) :
            LET line == summary.out.rows[i]
            IN  line["Years Present"] = Cardinality(YearsOf(GroupRows(line)))

\* The filter result has rows and lacks a column the summary's mode groups by.
LacksModeColumns ==
    /\ Summarised
    /\ ~IsEmpty(result)
    /\ \/ summary.mode = "find_collaborations" /\ "collab_type" \notin result.cols
       \/ /\ summary.mode \in {"individual", "compare_individuals"}
          /\ {"country", "iso2c", "chemical"} \ result.cols # {}

\* C12: a summary asked in a mode whose columns the filter result lacks comes
\* back as a table with an error message, and no exception is raised.
C12_ErrorAsData ==
    LacksModeColumns =>
        /\ summary.out.kind = "table"
        /\ "Error" \in summary.out.cols

-----------------------------------------------------------------------------
(* Calls of get_display_data one after the other on the same objects.      *)

\* A variant that narrows the caller's table itself to the year range and
\* the category instead of a new frame.
TableAfterInPlace(table, year_range, chemical_category) ==
    IF {"year", "chemical"} \subseteq table.cols
    THEN Narrow(table, year_range, chemical_category)
    ELSE table

\* The caller's table once a call has returned: the function assigns only to
\* its locals filtered_df, collab_df and result, each a new frame (boolean
\* indexing, .copy(), merge, dropna), and never to df.
TableAfter(table, year_range, chemical_category) == table

\* A variant that keeps in the caller's directory itself only the columns
\* the merge uses.
DirectoryAfterSelected(countries) ==
    IF countries.kind = "table"
    THEN [countries EXCEPT !.cols = {"iso2c", "country", "cc", "region"}]
    ELSE countries

\* The caller's directory once a call has returned: country_meta is a new
\* frame, and nothing is assigned to country_list.
DirectoryAfter(countries) == countries

RepeatPool ==
    { Row(CN, FALSE, 2000, "Organic", 5, 6),
      Row(CN, FALSE, 2001, "All", 4, 6),
      Row(US, FALSE, 2001, "Organic", 3, 6),
      Row(Join(CN, US), TRUE, 2000, "Organic", 1, 6),
      Row(Join(Join(CN, US), JP), TRUE, 2001, "All", 2, 6),
      Row(JP, FALSE, 2000, "Organic", NaN, 6) }

RepeatRequests ==
    [selected_isos : {<<CN, US>>}, year_range : {<<2000, 2000>>, <<2000, 2001>>},
     chemical_category : Categories,
     display_mode : {"compare_individuals", "find_collaborations"},
     region_filter : Regions]

InitRepeat ==
    /\ df \in {Frame(DatasetCols, rows) : rows \in Tables(RepeatPool, MaxRows)}
    /\ directory \in Directories(df)
    /\ req \in RepeatRequests
    /\ result = Pending
    /\ InitSession

\* The request is made on the table and the directory as they now are.
Repeat ==
    /\ calls < MaxCalls
    /\ calls' = calls + 1
    /\ result' = Apply(df, req, directory)
    /\ earlier' = Append(earlier, [n |-> calls + 1, out |-> result'])
    /\ df' = TableAfter(df, req.year_range, req.chemical_category)
    /\ directory' = DirectoryAfter(directory)
    /\ UNCHANGED <<req, sessionVars, summary>>

\* Some other request is made on the same table and directory.
Between ==
    /\ calls < MaxCalls
    /\ calls' = calls + 1
    /\ \E other \in RepeatRequests \ {req} :
          df' = TableAfter(df, other.year_range, other.chemical_category)
    /\ directory' = DirectoryAfter(directory)
    /\ UNCHANGED <<req, result, sessionVars, summary, earlier>>

NextRepeat ==
    \/ Repeat
    \/ Between

SpecRepeat == InitRepeat /\ [][NextRepeat]_vars

-----------------------------------------------------------------------------
(* The country directory as each loader builds it.                         *)

\* The {} that load_country_data returns when an exception was caught.
EmptyDict == [kind |-> "dict", cols |-> {}, rows |-> <<>>]

\* src/utils/functions.py load_country_data: the 'country_list' of the
\* dictionary returned. The region column is assigned to itself; the
\* categories, the regions and the year range are computed before the
\* dictionary is made: sorted() of the regions fails when a missing region
\* has to be compared with another one, and int() of the minimum year fails
\* when no row has a year.
load_country_data(table) ==
    IF ~({"is_collab", "country", "iso2c", "lat", "lng", "cc", "region",
          "chemical", "year"} \subseteq table.cols)
    THEN EmptyDict
    ELSE
    LET solo == Filter(table.rows, LAMBDA r : r.is_collab = FALSE)
        unique == DropDuplicates(solo, {})
        named == Filter(unique, LAMBDA r : r.country # NaS /\ r.iso2c # NaKey
                                             /\ r.country # "" /\ r.iso2c # <<>>)
        regions == {named[i].region : i \in 1..Len(named)}
    IN  IF NaS \in regions /\ Cardinality(regions) > 1 THEN EmptyDict
        ELSE IF Present(table.rows, "year") = <<>> THEN EmptyDict
        ELSE Frame(table.cols, SortByCountry(named))

\* A solo row with other cells for the name, the colour and the region.
Variant(r, country, cc, region) ==
    [r EXCEPT !.country = country, !.cc = cc, !.region = region]

DirectoryPool ==
    { Row(CN, FALSE, 2000, "Organic", 5, 6),
      Variant(Row(CN, FALSE, 2001, "Organic", 4, 6), "PR China", "#AA0000", "Asia"),
      Variant(Row(CN, FALSE, 2001, "All", 4, 6), "China", "#AA0000", NaS),
      Row(US, FALSE, 2000, "Organic", 3, 6),
      Variant(Row(JP, FALSE, 2000, "Organic", 2, 6), NaS, "#00AA00", "Asia"),
      Row(Join(CN, US), TRUE, 2000, "Organic", 1, 6) }

InitDirectory ==
    /\ df \in {Frame(DatasetCols, rows) : rows \in Tables(DirectoryPool, MaxRows + 1)}
    /\ directory = None
    /\ req = [loader |-> "none"]
    /\ result = Pending
    /\ InitSession

\* The server's loader runs on the dataset.
LoadCountryList ==
    /\ directory' = load_country_list(df)
    /\ req' = [loader |-> "load_country_list"]
    /\ UNCHANGED <<df, result, sessionVars, aggVars>>

\* The loader of src/utils/functions.py runs on the dataset.
LoadCountryData ==
    /\ directory' = load_country_data(df)
    /\ req' = [loader |-> "load_country_data"]
    /\ UNCHANGED <<df, result, sessionVars, aggVars>>

NextDirectory ==
    \/ LoadCountryList
    \/ LoadCountryData

SpecDirectory == InitDirectory /\ [][NextDirectory]_vars

\* The ISO codes of the solo rows that have a code and a name.
SoloCodes ==
    {df.rows[i].iso2c : i \in {j \in 1..Len(df.rows) :
        /\ df.rows[j].is_collab = FALSE
        /\ df.rows[j].iso2c # NaKey
        /\ df.rows[j].country # NaS}}

\* C14: a directory built from the records has exactly one entry for each
\* ISO code of their solo rows, also when rows of one code differ in name,
\* coordinates, colour or region.
C14_OneEntryPerIso ==
    directory.kind = "table" =>
        \A code \in SoloCodes :
            Cardinality({i \in 1..Len(directory.rows) : directory.rows[i].iso2c = code}) = 1

\* C25: no entry of a directory built from the records has a missing
\* region, whichever loader built it.
C25_RegionFilled ==
    directory.kind = "table" =>
        \A i \in 1..Len(directory.rows) : directory.rows[i].region # NaS

-----------------------------------------------------------------------------
(* Direct calls on records whose metadata is missing or differs, and on    *)
(* collaborations of every size class.                                     *)

NP == <<"N", "P">>

SN == <<"S", "N">>

EnrichPool ==
    { Row(CN, FALSE, 2000, "Organic", 5, 6),
      Variant(Row(CN, FALSE, 2001, "Organic", 4, 6), "China", "#AA0000", NaS),
      Variant(Row(CN, FALSE, 2001, "Organic", 6, 6), "China", "#AA0000", "Americas"),
      Variant(Row(US, FALSE, 2000, "Organic", 3, 6), "United States", NaS, "Americas"),
      Row(US, FALSE, 2001, "Organic", 2, 6),
      Variant(Row(JP, FALSE, 2000, "Organic", 2, 6), NaS, "#00AA00", "Asia"),
      Row(Join(CN, US), TRUE, 2000, "Organic", 1, 6),
      Row(Join(Join(CN, CN), US), TRUE, 2001, "Organic", 5, 6),
      Row(Join(Join(CN, US), JP), TRUE, 2001, "Organic", 2, 6),
      Row(Join(Join(Join(CN, US), JP), NP), TRUE, 2000, "Organic", 3, 6),
      Row(Join(Join(Join(Join(CN, US), JP), NP), SN), TRUE, 2000, "Organic", 4, 6) }

EnrichRequests ==
    [selected_isos : {<<CN>>, <<CN, US>>, <<CN, JP>>}, year_range : {<<2000, 2001>>},
     chemical_category : {"Organic"},
     display_mode : {"compare_individuals", "find_collaborations"},
     region_filter : {"All", "Asia", "Other"}]

InitEnrich ==
    /\ df \in {Frame(DatasetCols, rows) : rows \in Tables(EnrichPool, MaxRows)}
    /\ directory \in Directories(df)
    /\ req \in EnrichRequests
    /\ result = Pending
    /\ InitSession

SpecEnrich == InitEnrich /\ [][NextFilter]_vars

RECURSIVE Text(_)
\* The characters of a key as one string.
Text(key) == IF key = <<>> THEN "" ELSE Head(key) \o Text(Tail(key))

\* C15: in a Collaboration-mode result every row's plot_group is the row's
\* entity key, the '-'-joined ISO codes, and its plot_color_group is its
\* collab_type.
C15_CollaborationGroup ==
    (CollaborationCall /\ Returned) =>
        \A i \in 1..Len(result.rows) :
            /\ result.rows[i].plot_group = Text(result.rows[i].iso2c)
            /\ result.rows[i].plot_color_group = result.rows[i].collab_type

\* The directory handed to the call has an entry for the code.
HasEntry(code) ==
    /\ directory.kind = "table"
    /\ \E i \in 1..Len(directory.rows) : directory.rows[i].iso2c = code

\* The first entry of the code in the directory.
EntryOf(code) ==
    LET at == {i \in 1..Len(directory.rows) : directory.rows[i].iso2c = code}
    IN  directory.rows[CHOOSE i \in at : \A j \in at : i <= j]

\* The record of the table that a result row was made from.
Origin(r) == CHOOSE i \in 1..Len(df.rows) : Ident(df.rows[i]) = Ident(r)

\* The colour known for a result row: the directory's, else the record's own.
ColourOf(r) ==
    IF HasEntry(r.iso2c) /\ EntryOf(r.iso2c).cc # NaS THEN EntryOf(r.iso2c).cc
    ELSE df.rows[Origin(r)].cc

\* The display name known for a result row.
DisplayNameOf(r) ==
    IF HasEntry(r.iso2c) /\ EntryOf(r.iso2c).country # NaS
    THEN EntryOf(r.iso2c).country
    ELSE df.rows[Origin(r)].country

\* C16: in an Individual-mode result every row's plot_group is the country's
\* display name and its plot_color the country's colour, the gray '#808080'
\* where no colour is available for the row.
C16_IndividualGroup ==
    (IndividualCall /\ Returned) =>
        \A i \in 1..Len(result.rows) :
            LET r == result.rows[i]
            IN  /\ r.plot_group = DisplayNameOf(r)
                /\ r.plot_color = (IF ColourOf(r) = NaS THEN "#808080" ELSE ColourOf(r))

\* C17: in a Collaboration-mode result every row's collab_type follows from
\* its collab_size: 2 'Bilateral', 3 'Trilateral', 4 '4-country', any other
\* size '5-country+'.
C17_TypeBySize ==
    (CollaborationCall /\ Returned) =>
        \A i \in 1..Len(result.rows) :
            LET r == result.rows[i]
            IN  r.collab_type =
                  (IF r.collab_size = 2 THEN "Bilateral"
                   ELSE IF r.collab_size = 3 THEN "Trilateral"
                   ELSE IF r.collab_size = 4 THEN "4-country"
                   ELSE "5-country+")

\* A result holding a collaboration of four and one of five countries.
C17_Witness ==
    /\ CollaborationCall
    /\ \E i, j \in 1..Len(result.rows) :
          /\ result.rows[i].collab_size = 4
          /\ result.rows[i].collab_type = "4-country"
          /\ result.rows[j].collab_size = 5
          /\ result.rows[j].collab_type = "5-country+"

\* C20: in Individual mode with a region filter other than 'All' and a
\* directory, the rows returned are the selected solo rows inside the year
\* range and category, with a numeric value, whose directory entry has the
\* filter's region, whatever the region cell of the record itself.
C20_DirectoryRegion ==
    (IndividualCall /\ Returned /\ req.region_filter # "All" /\ directory.kind = "table") =>
        Idents(result.rows) =
          Idents(Filter(df.rows, LAMBDA r : /\ PassedYearCategory(r)
                                            /\ r.is_collab = FALSE
                                            /\ r.iso2c \in ToSet(req.selected_isos)
                                            /\ NumericValue(r)
                                            /\ HasEntry(r.iso2c)
                                            /\ EntryOf(r.iso2c).region = req.region_filter))

-----------------------------------------------------------------------------
(* calculate_top_contributors, src/utils/functions.py.                     *)

\* A mean as the fraction sum/n of the cells that are not missing; the mean
\* of no cells, NaN, is 0/0.
Mean(xs) == [sum |-> Sum(xs), n |-> Len(xs)]

MeanIsNaN(m) == m.n = 0

\* a > b on two means that are numbers
MeanGreater(a, b) == a.sum * b.n > b.sum * a.n

\* sort_values(ascending=False) puts a before b: a is larger, or b is NaN
\* and a is not.
SortsBefore(a, b) ==
    IF MeanIsNaN(a) THEN FALSE
    ELSE IF MeanIsNaN(b) THEN TRUE
    ELSE MeanGreater(a, b)

RECURSIVE InsertByMean(_, _)
InsertByMean(x, sorted) ==
    IF sorted = <<>> THEN <<x>>
    ELSE IF SortsBefore(x.percentage, Head(sorted).percentage) THEN <<x>> \o sorted
    ELSE <<Head(sorted)>> \o InsertByMean(x, Tail(sorted))

RECURSIVE SortByMean(_)
\* sort_values('percentage', ascending=False): at the sizes of the model the
\* rows of equal mean keep their order
SortByMean(rows) ==
    IF rows = <<>> THEN <<>>
    ELSE InsertByMean(rows[Len(rows)], SortByMean(SubSeq(rows, 1, Len(rows) - 1)))

\* head(n)
head(rows, n) == SubSeq(rows, 1, IF n < Len(rows) THEN n ELSE Len(rows))

\* Lines 623-624: the category filter, skipped for "All".
CategoryFilter(rows, chemical_category) ==
    IF chemical_category # "All"
    THEN Filter(rows, LAMBDA r : r.chemical = chemical_category)
    ELSE rows

\* Lines 630-639: one row per code in ascending order of the codes, the mean
\* of its percentage cells, sorted by the mean, cut to top_n and ranked.
Ranked(rows, top_n) ==
    LET by == <<"iso2c">>
        keyed == SelectSeq(rows, LAMBDA r : HasKey(r, by))
        keys == SortKeys({GroupKey(keyed[i], by) : i \in 1..Len(keyed)}, by)
        means == [i \in 1..Len(keys) |->
                    [iso2c |-> keys[i][1],
                     percentage |-> Mean(Present(Members(rows, by, keys[i]), "percentage"))]]
        top == head(SortByMean(means), top_n)
    IN  [i \in 1..Len(top) |->
            [rank |-> i, iso2c |-> top[i].iso2c, percentage |-> top[i].percentage]]

RECURSIVE MergeNames(_, _)
\* merge(country_list[['iso2c', 'country']], on='iso2c', how='left'): a row
\* for every entry of the row's code, one row without a name when it has none
MergeNames(rows, countries) ==
    IF rows = <<>> THEN <<>>
    ELSE LET r == Head(rows)
             entries == SelectSeq(countries.rows, LAMBDA m : m.iso2c = r.iso2c)
             named(country) == [rank |-> r.rank, iso2c |-> r.iso2c, country |-> country,
                                avg_percentage |-> r.percentage]
         IN  (IF entries = <<>> THEN <<named(NaS)>>
              ELSE [i \in 1..Len(entries) |-> named(entries[i].country)])
             \o MergeNames(Tail(rows), countries)

calculate_top_contributors(table, year_range, chemical_category, region_filter, countries, top_n, ignore_year_filter) ==
    IF \/ "is_collab" \notin table.cols
       \/ ~ignore_year_filter /\ "year" \notin table.cols
       \/ chemical_category # "All" /\ "chemical" \notin table.cols
       \/ region_filter # "All" /\ "region" \notin table.cols
       \/ {"iso2c", "percentage"} \ table.cols # {}
    THEN Raised
    ELSE
    LET solo == Filter(table.rows, LAMBDA r : r.is_collab = FALSE)
        inYears == IF ~ignore_year_filter
                   THEN Filter(solo, LAMBDA r : YearKeep(r, year_range))
                   ELSE solo
        inCategory == CategoryFilter(inYears, chemical_category)
        query_df == IF region_filter # "All"
                    THEN Filter(inCategory, LAMBDA r : r.region = region_filter)
                    ELSE inCategory
        top_data == Ranked(query_df, top_n)
    IN  IF countries.kind = "none" THEN Raised
        ELSE IF {"iso2c", "country"} \ countries.cols # {} THEN Raised
        ELSE Frame({"rank", "iso2c", "country", "avg_percentage"},
                   MergeNames(top_data, countries))

TopPool ==
    { Row(CN, FALSE, 2000, "Organic", 5, 6),
      Row(CN, FALSE, 2000, "All", 2, 6),
      Variant(Row(CN, FALSE, 2001, "Organic", 4, 6), "PR China", "#AA0000", "Asia"),
      Row(US, FALSE, 2000, "Organic", 5, 6),
      Row(US, FALSE, 2001, "Organic", 3, 6),
      Row(JP, FALSE, 2000, "Organic", NaN, 6),
      Row(Join(CN, US), TRUE, 2000, "Organic", 9, 6) }

TopRequests ==
    [year_range : {<<2000, 2000>>, <<2000, 2001>>}, chemical_category : Categories,
     region_filter : Regions, top_n : {1, 10}, ignore_year_filter : BOOLEAN]

InitTop ==
    /\ df \in {Frame(DatasetCols, rows) : rows \in Tables(TopPool, MaxRows + 1)}
    /\ directory \in Directories(df)
    /\ req \in TopRequests
    /\ result = Pending
    /\ InitSession

TopContributors ==
    /\ result' = calculate_top_contributors(df, req.year_range, req.chemical_category,
                                            req.region_filter, directory, req.top_n,
                                            req.ignore_year_filter)
    /\ UNCHANGED <<df, directory, req, sessionVars, aggVars>>

NextTop == TopContributors

SpecTop == InitTop /\ [][NextTop]_vars

\* The solo rows of the table that the request's year range and region admit.
Admitted(r) ==
    /\ r.is_collab = FALSE
    /\ req.ignore_year_filter \/ InYearRange(r)
    /\ req.region_filter = "All" \/ r.region = req.region_filter

\* a and b are the same mean, or both are NaN
MeanEqual(a, b) ==
    IF MeanIsNaN(a) \/ MeanIsNaN(b) THEN MeanIsNaN(a) /\ MeanIsNaN(b)
    ELSE a.sum * b.n = b.sum * a.n

\* C18: the call returns at most top_n rows, one per solo entity, ranked
\* 1..k without gap or repeat, the mean never increasing with the rank and
\* equal means in ascending order of the codes, whatever table and directory
\* are passed.
C18_RankedTop ==
    Called =>
        /\ Returned
        /\ Len(result.rows) <= req.top_n
        /\ \A i \in 1..Len(result.rows) : result.rows[i].rank = i
        /\ \A i, j \in 1..Len(result.rows) :
              i < j =>
                /\ result.rows[i].iso2c # result.rows[j].iso2c
                /\ ~SortsBefore(result.rows[j].avg_percentage, result.rows[i].avg_percentage)
                /\ MeanEqual(result.rows[i].avg_percentage, result.rows[j].avg_percentage)
                      => StrLess(result.rows[i].iso2c, result.rows[j].iso2c)

\* C19: with chemical_category 'All' the mean of each row returned is taken
\* over the admitted rows of its code whose category is 'All', and only codes
\* with such a row are returned.
C19_AllIsLiteral ==
    (Called /\ Returned /\ req.chemical_category = "All") =>
        \A i \in 1..Len(result.rows) :
            LET literal == Filter(df.rows, LAMBDA r : /\ Admitted(r)
                                                      /\ r.chemical = "All"
                                                      /\ r.iso2c = result.rows[i].iso2c)
            IN  /\ literal # <<>>
                /\ result.rows[i].avg_percentage = Mean(Present(literal, "percentage"))

-----------------------------------------------------------------------------
(* Properties of the enrichment.                                           *)

\* The cell the directory holds for a result row, missing when it has no
\* entry for the row's code.
DirectoryCell(r, col) == IF HasEntry(r.iso2c) THEN EntryOf(r.iso2c)[col] ELSE NaS

\* C21: in an Individual-mode result the country name, the colour and the
\* region of a row are the directory's wherever the directory has a value,
\* whatever the record holds, and the record's own where the directory has
\* no entry or no value.
C21_DirectoryFirst ==
    (IndividualCall /\ Returned) =>
        \A i \in 1..Len(result.rows) : \A col \in {"country", "cc", "region"} :
            LET r == result.rows[i]
            IN  r[col] = (IF DirectoryCell(r, col) # NaS THEN DirectoryCell(r, col)
                          ELSE df.rows[Origin(r)][col])

\* A row returned with the directory's region where its record holds another.
C21_Witness ==
    /\ IndividualCall
    /\ \E i \in 1..Len(result.rows) :
          LET r == result.rows[i]
          IN  /\ HasEntry(r.iso2c)
              /\ df.rows[Origin(r)].region \notin {NaS, EntryOf(r.iso2c).region}
              /\ r.region = EntryOf(r.iso2c).region

\* C22: in a Collaboration-mode result the collab_size of a row is the number
\* of distinct ISO codes in its '-'-split key, also when a code is repeated.
C22_DistinctPartners ==
    (CollaborationCall /\ Returned) =>
        \A i \in 1..Len(result.rows) :
            result.rows[i].collab_size = Cardinality(ToSet(Split(result.rows[i].iso2c)))

\* The record passes the region filter as the function applies it.
PassedRegion(r) == req.region_filter = "All" \/ r.region = req.region_filter

\* C30: an Individual-mode result has exactly one row for each record that
\* passed the year, category, solo, selection and region filters and has a
\* numeric year and value, with several directory entries for a code or none.
C30_RowForRow ==
    (IndividualCall /\ Returned) =>
        Idents(result.rows) =
          Idents(Filter(df.rows, LAMBDA r : /\ PassedYearCategory(r)
                                            /\ r.is_collab = FALSE
                                            /\ r.iso2c \in ToSet(req.selected_isos)
                                            /\ PassedRegion(r)
                                            /\ NumericValue(r)))

\* Two records of one code, which has two entries in the directory: two
\* rows are returned.
C30_Witness ==
    /\ IndividualCall
    /\ directory.kind = "table"
    /\ Len(df.rows) = 2
    /\ Len(result.rows) = 2
    /\ \A i \in 1..2 :
          Cardinality({j \in 1..Len(directory.rows) :
                          directory.rows[j].iso2c = result.rows[i].iso2c}) = 2

-----------------------------------------------------------------------------
(* The same request under one region filter after the other.               *)

RegionPool ==
    { Row(CN, FALSE, 2000, "Organic", 5, 6),
      Variant(Row(US, FALSE, 2000, "Organic", 3, 6), "United States", "#0000AA", NaS),
      Row(Join(CN, US), TRUE, 2000, "Organic", 1, 6),
      Variant(Row(Join(CN, US), TRUE, 2001, "Organic", 2, 6), "China-United States", NaS, "Asia"),
      Row(Join(Join(CN, US), JP), TRUE, 2001, "Organic", 2, 6) }

InitRegion ==
    /\ df \in {Frame(DatasetCols, rows) : rows \in Tables(RegionPool, MaxRows)}
    /\ directory \in Directories(df)
    /\ req \in {r \in EnrichRequests : r.region_filter = "All" /\ Len(r.selected_isos) = 2}
    /\ result = Pending
    /\ InitSession

\* The request is made with some region filter, all else equal.
CallInRegion ==
    /\ calls < MaxCalls
    /\ calls' = calls + 1
    /\ \E region_filter \in {"All", "Asia", "Other"} :
          /\ result' = Apply(df, [req EXCEPT !.region_filter = region_filter], directory)
          /\ earlier' = Append(earlier, [region_filter |-> region_filter, out |-> result'])
    /\ UNCHANGED <<df, directory, req, sessionVars, summary>>

NextRegion == CallInRegion

SpecRegion == InitRegion /\ [][NextRegion]_vars

\* C29: in Collaboration mode two calls that differ in the region filter
\* alone return the same rows.
C29_RegionIgnored ==
    req.display_mode = "find_collaborations" =>
        \A i, j \in 1..Len(earlier) : earlier[i].out = earlier[j].out

\* Two calls in Collaboration mode under different region filters, both
\* returning rows.
C29_Witness ==
    /\ req.display_mode = "find_collaborations"
    /\ \E i, j \in 1..Len(earlier) :
          /\ earlier[i].region_filter = "All"
          /\ earlier[j].region_filter = "Asia"
          /\ ~IsEmpty(earlier[j].out)


-----------------------------------------------------------------------------
(* get_display_data and calculate_top_contributors one after the other on  *)
(* the same table and directory.                                           *)

\* calculate_top_contributors is called with the request's filters:
\* query_df is a copy of the solo rows, top_data comes from groupby and
\* merge, and nothing is assigned to df or country_list.
TopRanking ==
    /\ calls < MaxCalls
    /\ calls' = calls + 1
    /\ summary' = calculate_top_contributors(df, req.year_range, req.chemical_category,
                                             req.region_filter, directory, 10, FALSE)
    /\ df' = TableAfter(df, req.year_range, req.chemical_category)
    /\ directory' = DirectoryAfter(directory)
    /\ UNCHANGED <<req, result, sessionVars, earlier>>

NextFrame ==
    \/ Repeat
    \/ Between
    \/ TopRanking

SpecFrame == InitRepeat /\ [][NextFrame]_vars

-----------------------------------------------------------------------------
(* Clicks on a map of three countries.                                     *)

MapCodes == {CN, US, JP}

\* _handle_map_click for a click on any country of the map.
MapClicks ==
    \E clicked_iso \in MapCodes : Click(clicked_iso)

NextClicks ==
    \/ MapClicks
    \/ _clear_all_selections
    \/ filtered_data

SpecClicks == Init /\ [][NextClicks]_vars

NoRepeat(seq) == \A i, j \in 1..Len(seq) : seq[i] = seq[j] => i = j

\* C28: the selection never holds a code twice; a click on a code appends it
\* when it was absent and removes it when it was present, the other codes
\* staying in their order, and clearing leaves the empty list.
C28_ToggleOnly ==
    [][/\ NoRepeat(selected_countries')
       /\ \/ /\ selected_countries' = <<>>
             /\ map_click_iso' = map_click_iso
          \/ /\ map_click_iso' \in MapCodes
             /\ map_click_iso' \notin ToSet(selected_countries)
             /\ selected_countries' = Append(selected_countries, map_click_iso')
          \/ /\ map_click_iso' \in ToSet(selected_countries)
             /\ selected_countries' =
                  SelectSeq(selected_countries, LAMBDA c : c # map_click_iso')
          \/ /\ selected_countries' = selected_countries
             /\ events' = events]_vars

\* Three countries were clicked and then the second one again: it left the
\* middle of the list.
C28_Witness ==
    /\ selected_countries = <<CN, JP>>
    /\ map_click_iso = US
    /\ events = 4

-----------------------------------------------------------------------------
(* The session with its map and article outputs.                          *)

\* The contribution map is rendered: the dataset is read, the directory
\* fetched through its cache, and get_display_data called directly for every
\* country of the region; the choropleth goes to the widget.
contribution_map ==
    /\ reads' = ReadAgain(reads)
    /\ country_cache' = LruCall(country_cache, country_maxsize, NoArgs, load_country_list(df))
    /\ UNCHANGED <<filterVars, selected_countries, input_years, input_chemical_category,
                   input_display_mode, input_region_filter, display_cache, article_cache,
                   served, stale, last_call, recent, events, map_click_iso, aggVars>>

\* The plot of the top collaborations is rendered: the dataset is read and
\* grouped, nothing is kept.
article_top_collabs_plot ==
    /\ reads' = ReadAgain(reads)
    /\ UNCHANGED <<filterVars, selected_countries, input_years, input_chemical_category,
                   input_display_mode, input_region_filter, display_cache, country_cache,
                   article_cache, served, stale, last_call, recent, events, map_click_iso,
                   aggVars>>

NextRender ==
    \/ _handle_map_click
    \/ _clear_all_selections
    \/ SetYears
    \/ SetCategory
    \/ SetMode
    \/ SetRegion
    \/ filtered_data
    \/ contribution_map
    \/ country_cs_plot
    \/ article_top_collabs_plot

SpecRender == Init /\ [][NextRender]_vars

\* C23: at most one request of the process reads the dataset file; every
\* request after it works on what was loaded.
C23_ReadOnce ==
    reads <= 1

-----------------------------------------------------------------------------
(* The trend plots drawn from what get_display_data returned.              *)

\* go.Figure with its traces; an annotation alone is a figure without traces.
Figure(traces) == [kind |-> "figure", traces |-> traces]

\* go.Scatter(x=rows['year'], y=rows['total_percentage'], name=name)
Scatter(name, rows) ==
    [name |-> name,
     x |-> [i \in 1..Len(rows) |-> rows[i].year],
     y |-> [i \in 1..Len(rows) |-> rows[i].total_percentage]]

\* data['plot_group'].unique(): the values in order of first appearance
unique(rows) ==
    LET first == SelectSeq([i \in 1..Len(rows) |-> i], LAMBDA i :
                     \A j \in 1..(i - 1) : rows[j].plot_group # rows[i].plot_group)
    IN  [k \in 1..Len(first) |-> rows[first[k]].plot_group]

\* data[data['plot_group'] == group]: the rows of the group in the order of
\* the frame; a missing value equals nothing.
GroupData(rows, group) ==
    IF group = NaS THEN <<>> ELSE SelectSeq(rows, LAMBDA r : r.plot_group = group)

\* a sorts before b under sort_values(['plot_group', 'year']); a missing
\* group comes last.
GroupYearLess(a, b) ==
    IF a.plot_group # b.plot_group
    THEN a.plot_group # NaS /\ (b.plot_group = NaS \/ Rank(a.plot_group) < Rank(b.plot_group))
    ELSE a.year < b.year

RECURSIVE InsertByGroupYear(_, _)
InsertByGroupYear(x, sorted) ==
    IF sorted = <<>> THEN <<x>>
    ELSE IF GroupYearLess(x, Head(sorted)) THEN <<x>> \o sorted
    ELSE <<Head(sorted)>> \o InsertByGroupYear(x, Tail(sorted))

RECURSIVE SortByGroupYear(_)
\* data.sort_values(['plot_group', 'year'])
SortByGroupYear(rows) ==
    IF rows = <<>> THEN <<>>
    ELSE InsertByGroupYear(rows[Len(rows)], SortByGroupYear(SubSeq(rows, 1, Len(rows) - 1)))

PlotModes == {"compare_individuals", "find_collaborations"}

\* One trace for each plot_group, drawn from rows in their order.
Traces(rows) ==
    LET groups == unique(rows)
    IN  [i \in 1..Len(groups) |-> Scatter(groups[i], GroupData(rows, groups[i]))]

\* src/app.py create_trends_plot: one trace for each plot_group, of the
\* group's rows as they stand in data; the collaboration branch skips a group
\* without rows.
app_create_trends_plot(data, mode) ==
    IF "total_percentage" \notin data.cols \/ IsEmpty(data) THEN Figure(<<>>)
    ELSE IF mode \notin PlotModes THEN Figure(<<>>)
    ELSE IF "plot_group" \notin data.cols THEN Raised
    ELSE IF mode = "find_collaborations"
    THEN Figure(SelectSeq(Traces(data.rows), LAMBDA t : t.x # <<>>))
    ELSE Figure(Traces(data.rows))

\* src/utils/functions.py create_trends_plot: data is sorted by plot_group
\* and year first; a group without rows is skipped in both branches.
create_trends_plot(data, mode) ==
    IF "total_percentage" \notin data.cols \/ IsEmpty(data) THEN Figure(<<>>)
    ELSE IF "plot_group" \notin data.cols THEN Raised
    ELSE IF mode \notin PlotModes THEN Figure(<<>>)
    ELSE Figure(SelectSeq(Traces(SortByGroupYear(data.rows)), LAMBDA t : t.x # <<>>))

\* src/utils/functions.py create_main_plot: one trace for each plot_group, of
\* the group's rows as they stand in data; in the individual branch the
\* colour of a group without rows is read with iloc[0], which raises.
create_main_plot(data, display_mode) ==
    IF IsEmpty(data) THEN Figure(<<>>)
    ELSE IF display_mode \notin {"individual"} \cup PlotModes THEN Figure(<<>>)
    ELSE IF "plot_group" \notin data.cols THEN Raised
    ELSE IF /\ display_mode # "find_collaborations"
            /\ "plot_color" \in data.cols
            /\ \E i \in 1..Len(data.rows) : data.rows[i].plot_group = NaS
    THEN Raised
    ELSE Figure(Traces(data.rows))

PlotPool ==
    { Row(CN, FALSE, 2000, "Organic", 5, 6),
      Row(CN, FALSE, 2001, "Organic", 4, 6),
      Row(US, FALSE, 2000, "Organic", 3, 6),
      Row(Join(CN, US), TRUE, 2000, "Organic", 1, 6),
      Row(Join(CN, US), TRUE, 2001, "Organic", 2, 6) }

InitPlot ==
    /\ df \in {Frame(DatasetCols, rows) : rows \in Tables(PlotPool, MaxRows + 1)}
    /\ directory \in Directories(df)
    /\ req \in SummaryRequests
    /\ result = Pending
    /\ InitSession

\* The server's main_plot output on the filter result of the current mode.
main_plot ==
    /\ Returned
    /\ summary' =
         Summarized("main_plot", req.display_mode,
                    IF req.display_mode = "find_collaborations" /\ Len(req.selected_isos) < 2
                    THEN Figure(<<>>)
                    ELSE IF IsEmpty(result) THEN Figure(<<>>)
                    ELSE app_create_trends_plot(result, req.display_mode))
    /\ UNCHANGED <<filterVars, sessionVars, earlier, calls>>

\* create_trends_plot of src/utils/functions.py on the filter result
TrendsPlot ==
    /\ Returned
    /\ summary' = Summarized("create_trends_plot", req.display_mode,
                             create_trends_plot(result, req.display_mode))
    /\ UNCHANGED <<filterVars, sessionVars, earlier, calls>>

\* create_main_plot of src/utils/functions.py on the filter result
MainPlot ==
    /\ Returned
    /\ summary' = Summarized("create_main_plot", req.display_mode,
                             create_main_plot(result, req.display_mode))
    /\ UNCHANGED <<filterVars, sessionVars, earlier, calls>>

NextPlot ==
    \/ Call
    \/ main_plot
    \/ TrendsPlot
    \/ MainPlot

SpecPlot == InitPlot /\ [][NextPlot]_vars

\* C24: whichever plot function drew the filter result, the points of each
\* trace come in ascending order of their year.
C24_YearsAscending ==
    (Summarised /\ summary.out.kind = "figure") =>
        \A t \in 1..Len(summary.out.traces) :
            LET x == summary.out.traces[t].x
            IN  \A i, j \in 1..Len(x) : i < j => x[i] <= x[j]

=============================================================================
